---- MODULE Spec2Model ----
(***************************************************************************)
(* State-machine model of src/main.js: an ambient light whose colour is    *)
(* driven by a circular slider (auto-rotating timer + mouse drag) and      *)
(* whose intensity is driven by a range input.                             *)
(*                                                                         *)
(* Numbers.  JavaScript numbers are IEEE-754 doubles.                      *)
(*  - The angle `deg` is kept as a double with an explicit significand:    *)
(*    [w, fh, fl] stands for w + fh/2^26 + fl/2^52 (w whole degrees, fh    *)
(*    and fl the high and low 26 bits of the 52-bit binary fraction).  A   *)
(*    double in [2^k, 2^(k+1)) has the low k bits of fl equal to zero.     *)
(*  - The intensity is kept in exact tenths (1.5 is 15), or is NaN.        *)
(*  - Math.sin, Math.cos and Math.atan2 are evaluated from degree tables   *)
(*    (10^-6 resolution) with linear interpolation; angles produced by     *)
(*    atan2 are computed to 1/1024 degree, and the remaining    *)
(*    low-order bits of the double are drawn from LowPatterns.             *)
(***************************************************************************)
EXTENDS Integers, Sequences, FiniteSets

VARIABLES pc, intensitySlider, oninput, intervalSet, circleHandlers, rafPending,
          scene, light, lightColor, lightIntensity,
          deg, mdown, sliderPos, circleCss, angleInput,
          startDeg, ticksSince

\* The program's variables, and the two that only observe it: the angle at
\* the last drag move (or at start-up) and the timer ticks since then.
progVars == <<pc, intensitySlider, oninput, intervalSet, circleHandlers, rafPending,
              scene, light, lightColor, lightIntensity,
              deg, mdown, sliderPos, circleCss, angleInput>>

lapVars == <<startDeg, ticksSince>>

vars == <<progVars, lapVars>>

(***************************************************************************)
(* Program constants and model bounds                                      *)
(***************************************************************************)
ORBIT_RADIUS == 27

\* Pointer positions explored: within MaxOff pixels of the circle's centre.
MaxOff == 2

\* Scale of the trigonometric tables (values are multiples of 10^-6).
Micro == 10^6

\* An angle computed by the atan2 model is a multiple of 1/FracUnit degree.
FracUnit == 2^10

\* One limb of the binary fraction holds 26 bits; FracUnit * LimbPerUnit = Limb.
Limb == 2^26
LimbPerUnit == Limb \div FracUnit

\* Full turn, as used by both `% 360` expressions.
FullTurn == 360

(***************************************************************************)
(* Colours (hex literals of setLightAndUIFromAngle)                        *)
(***************************************************************************)
White == 16777215
LightBlue == 11393254
Coral == 16222087
LightGreen == 9498256
Yellow == 16776960
Orange == 16753920
Brown == 10824234
Pink == 13395609

(***************************************************************************)
(* Doubles holding an angle                                                *)
(***************************************************************************)
Whole(n) == [w |-> n, fh |-> 0, fl |-> 0]

IsWhole(d) == d.fh = 0 /\ d.fl = 0

\* d < n and d <= n for a whole number n (d is non-negative).
DblLess(d, n) == d.w < n
DblLeq(d, n) == d.w < n \/ (d.w = n /\ IsWhole(d))

\* Exponent of a whole part: 2^k <= n < 2^(k+1); 0 for n < 2.
RECURSIVE Binade(_)
Binade(n) == IF n < 2 THEN 0 ELSE 1 + Binade(n \div 2)

RECURSIVE Pow2(_)
Pow2(k) == IF k = 0 THEN 1 ELSE 2 * Pow2(k - 1)

\* Unit in the last place of a double with whole part n, in units of 2^-52.
Ulp(n) == Pow2(Binade(n))

\* Math.ceil
Ceil(d) == IF IsWhole(d) THEN d.w ELSE d.w + 1

(***************************************************************************)
(* Doubles holding the intensity: exact tenths, or NaN                     *)
(***************************************************************************)
NaN == [nan |-> TRUE, tenths |-> 0]
Tenths(n) == [nan |-> FALSE, tenths |-> n]
Num(n) == Tenths(10 * n)

\* JavaScript's % : the result takes the sign of the dividend.
JsRem(a, n) == IF a >= 0 THEN a % n ELSE 0 - ((0 - a) % n)

(***************************************************************************)
(* parseInt(string, 10) on a string given as a sequence of characters      *)
(***************************************************************************)
DigitChars == <<"0", "1", "2", "3", "4", "5", "6", "7", "8", "9">>
IsDigit(c) == \E i \in 1..10 : DigitChars[i] = c
DigitVal(c) == (CHOOSE i \in 1..10 : DigitChars[i] = c) - 1
IsSpace(c) == c = " "

RECURSIVE SkipSpace(_)
SkipSpace(s) == IF s # <<>> /\ IsSpace(Head(s)) THEN SkipSpace(Tail(s)) ELSE s

\* Value of the longest prefix of digits of s, acc being the value so far.
RECURSIVE DigitsValue(_, _)
DigitsValue(s, acc) ==
    IF s # <<>> /\ IsDigit(Head(s))
    THEN DigitsValue(Tail(s), 10 * acc + DigitVal(Head(s)))
    ELSE acc

\* [nan, val]: NaN when no digit follows the optional sign.
ParseInt(raw) ==
    LET s == SkipSpace(raw)
        neg == s # <<>> /\ Head(s) = "-"
        t == IF s # <<>> /\ (Head(s) = "-" \/ Head(s) = "+") THEN Tail(s) ELSE s
    IN  IF t = <<>> \/ ~IsDigit(Head(t))
        THEN [nan |-> TRUE, val |-> 0]
        ELSE [nan |-> FALSE,
              val |-> IF neg THEN 0 - DigitsValue(t, 0) ELSE DigitsValue(t, 0)]

\* Raw values of the range input explored by the model.
RawValues ==
    { <<"0">>, <<"1">>, <<"5">>, <<"1", "0">>, <<" ", "5">>, <<"-", "3">>,
      <<"5", "x">>, <<"x">>, <<"a", "b", "c">>, <<>> }

(***************************************************************************)
(* Math.sin / Math.cos of an angle given in degrees                        *)
(***************************************************************************)
\* SinTable[n + 1] = sin(n degrees) * 10^6, n = 0..90.
SinTable ==
    <<
       0, 17452, 34899, 52336, 69756, 87156, 104528, 121869,
       139173, 156434, 173648, 190809, 207912, 224951, 241922, 258819,
       275637, 292372, 309017, 325568, 342020, 358368, 374607, 390731,
       406737, 422618, 438371, 453990, 469472, 484810, 500000, 515038,
       529919, 544639, 559193, 573576, 587785, 601815, 615661, 629320,
       642788, 656059, 669131, 681998, 694658, 707107, 719340, 731354,
       743145, 754710, 766044, 777146, 788011, 798636, 809017, 819152,
       829038, 838671, 848048, 857167, 866025, 874620, 882948, 891007,
       898794, 906308, 913545, 920505, 927184, 933580, 939693, 945519,
       951057, 956305, 961262, 965926, 970296, 974370, 978148, 981627,
       984808, 987688, 990268, 992546, 994522, 996195, 997564, 998630,
       999391, 999848, 1000000 >>

\* sin and cos of a whole number of degrees, in millionths.
SinWhole(n) ==
    LET m == n % FullTurn
    IN  IF m <= 90 THEN SinTable[m + 1]
        ELSE IF m <= 180 THEN SinTable[180 - m + 1]
        ELSE IF m <= 270 THEN 0 - SinTable[m - 180 + 1]
        ELSE 0 - SinTable[FullTurn - m + 1]

CosWhole(n) == SinWhole(n + 90)

\* The fraction of an angle in units of 1/FracUnit degree (its top bits).
FracOf(d) == d.fh \div LimbPerUnit

\* Math.sin(d * Math.PI / 180) and Math.cos(...), in millionths: linear
\* interpolation between the neighbouring whole degrees.
SinMicro(d) ==
    SinWhole(d.w) + ((SinWhole(d.w + 1) - SinWhole(d.w)) * FracOf(d)) \div FracUnit

CosMicro(d) ==
    CosWhole(d.w) + ((CosWhole(d.w + 1) - CosWhole(d.w)) * FracOf(d)) \div FracUnit

\* Math.round(v) for v in millionths: floor(v + 0.5).  Where the table value
\* is exactly half-way, the double product is not: `above` tells whether it
\* lies above the half (then it rounds up) or below it (then it rounds down).
RoundPx(v, above) ==
    LET q == v + Micro \div 2
    IN  IF q % Micro = 0 /\ ~above THEN (q \div Micro) - 1 ELSE q \div Micro

\* The half-way products and the doubles the code computes there:
\*   27*sin(30)  = 13.499999999999998    27*sin(150) = 13.499999999999998
\*   27*sin(210) = -13.500000000000004   27*sin(330) = -13.500000000000012
\*   27*-cos(60) = -13.500000000000004   27*-cos(120) = 13.499999999999995
\*   27*-cos(240) = 13.500000000000012   27*-cos(300) = -13.500000000000004
SinHalfAbove(d) == FALSE
CosHalfAbove(d) == d = Whole(240)

(***************************************************************************)
(* Math.atan2, in degrees                                                  *)
(***************************************************************************)
\* TanTable[n + 1] = tan(n degrees) * 10^6, n = 0..45.
TanTable ==
    <<
       0, 17455, 34921, 52408, 69927, 87489, 105104, 122785,
       140541, 158384, 176327, 194380, 212557, 230868, 249328, 267949,
       286745, 305731, 324920, 344328, 363970, 383864, 404026, 424475,
       445229, 466308, 487733, 509525, 531709, 554309, 577350, 600861,
       624869, 649408, 674509, 700208, 726543, 753554, 781286, 809784,
       839100, 869287, 900404, 932515, 965689, 1000000 >>

\* atan(p / q) for 0 <= p <= q, 0 < q, in units of 1/FracUnit degree: the
\* whole degree n with tan(n) <= p/q < tan(n + 1), then linear interpolation.
AtanUnits(p, q) ==
    IF p = q THEN 45 * FracUnit
    ELSE LET n == CHOOSE i \in 0..44 :
                      /\ TanTable[i + 1] * q <= p * Micro
                      /\ TanTable[i + 2] * q > p * Micro
         IN  n * FracUnit
             + ((p * Micro - TanTable[n + 1] * q) * FracUnit)
                   \div ((TanTable[n + 2] - TanTable[n + 1]) * q)

Abs(x) == IF x < 0 THEN 0 - x ELSE x

\* Math.atan2(a, b) / (Math.PI / 180), in units of 1/FracUnit degree: the
\* signed angle in (-180, 180] of the point (b, a); atan2(0, 0) = 0.
Atan2Units(a, b) ==
    LET aa == Abs(a)
        ab == Abs(b)
        beta == IF aa <= ab THEN AtanUnits(aa, ab) ELSE 90 * FracUnit - AtanUnits(ab, aa)
        mag == IF b > 0 THEN beta
               ELSE IF b < 0 THEN 180 * FracUnit - beta
               ELSE 90 * FracUnit
    IN  IF a = 0 /\ b = 0 THEN 0
        ELSE IF a >= 0 THEN mag ELSE 0 - mag

\* Low-order bits of a computed, inexact angle, as multiples of its ulp:
\* Math.atan2 is implementation-approximated, so the bits below the
\* computed 1/FracUnit degree are not fixed by the source.  The patterns are
\* "last bit set" and "all ones".
LowPatterns(w) == { Ulp(w), Limb - Ulp(w) }

\* The doubles an angle of `a` units may be: exact when it has no fraction
\* (the axes and diagonals), else any of the low-order patterns.
DoublesAt(a) ==
    IF a % FracUnit = 0 THEN { Whole(a \div FracUnit) }
    ELSE { [w |-> a \div FracUnit, fh |-> (a % FracUnit) * LimbPerUnit, fl |-> l] :
               l \in LowPatterns(a \div FracUnit) }

\* Variant of AngleUnits: the shift by 180 is left out.
AngleUnitsNoShift(mx, my) ==
    JsRem(0 - Atan2Units(mx - ORBIT_RADIUS, my - ORBIT_RADIUS), FullTurn * FracUnit)

\* (-atan / (Math.PI / 180) + 180) % 360 of the move handler, for the
\* pointer at (mx, my) relative to the circle's top-left corner.
AngleUnits(mx, my) ==
    JsRem(0 - Atan2Units(mx - ORBIT_RADIUS, my - ORBIT_RADIUS) + 180 * FracUnit,
          FullTurn * FracUnit)

(***************************************************************************)
(* deg + 1 and % 360 in double arithmetic                                  *)
(***************************************************************************)
\* d + 1, rounded to nearest, ties to even: the sum has whole part d.w + 1,
\* whose binade fixes how many low bits of the fraction the double keeps.
DblAddOne(d) ==
    LET w1 == d.w + 1
        q == Ulp(w1)
        r == d.fl % q
        base == d.fl - r
        up == 2 * r > q \/ (2 * r = q /\ (base \div q) % 2 = 1)
        fl2 == IF up THEN base + q ELSE base
        fh2 == IF fl2 = Limb THEN d.fh + 1 ELSE d.fh
    IN  [w |-> IF fh2 = Limb THEN w1 + 1 ELSE w1,
         fh |-> fh2 % Limb,
         fl |-> fl2 % Limb]

\* d % n for a non-negative double d < 2n and a whole n (exact).
DblRem(d, n) == IF d.w >= n THEN [d EXCEPT !.w = @ - n] ELSE d

(***************************************************************************)
(* Scene and light (initLight, updateLight)                                *)
(***************************************************************************)
\* scene.children, split by kind: meshes by name, lights as records.
\* `light` is the position in scene.lights of the object the variable
\* `light` refers to, 0 when that object is not in the scene.
AmbientLight(color, intensity) == [color |-> color, intensity |-> intensity]

RemoveAt(seq, i) ==
    IF i \in 1..Len(seq)
    THEN SubSeq(seq, 1, i - 1) \o SubSeq(seq, i + 1, Len(seq))
    ELSE seq

\* scene.remove(object): no-op when the object is not a child.
SceneRemove(sc, lt) == [sc EXCEPT !.lights = RemoveAt(@, lt)]

\* scene.add(object)
SceneAdd(sc, obj) == [sc EXCEPT !.lights = Append(@, obj)]

\* initLight(): [scene, light] after it.
InitLight(sc, color, intensity) ==
    LET sc2 == SceneAdd(sc, AmbientLight(color, intensity))
    IN  [scene |-> sc2, light |-> Len(sc2.lights)]

\* Variant of UpdateLight: the old light is not removed.
UpdateLightNoRemove(sc, lt, color, intensity) ==
    LET sc2 == SceneAdd(sc, AmbientLight(color, intensity))
    IN  [scene |-> sc2, light |-> Len(sc2.lights)]

\* updateLight(): [scene, light] after it.
UpdateLight(sc, lt, color, intensity) ==
    LET sc1 == SceneRemove(sc, lt)
        sc2 == SceneAdd(sc1, AmbientLight(color, intensity))
    IN  [scene |-> sc2, light |-> Len(sc2.lights)]

(***************************************************************************)
(* setLightAndUIFromAngle and positionSlider                               *)
(***************************************************************************)
Band(colorHex, cssColor, boxShadowColor) ==
    [colorHex |-> colorHex, cssColor |-> cssColor, boxShadowColor |-> boxShadowColor]

\* Variant of AngleToColor: the first comparison is `deg <= 40`.
AngleToColorInclusive(d) ==
    IF DblLeq(d, 40) THEN Band(White, "white", "white")
    ELSE IF DblLess(d, 80) THEN Band(LightBlue, "lightblue", "lightblue")
    ELSE IF DblLess(d, 120) THEN Band(Coral, "red", "red")
    ELSE IF DblLess(d, 160) THEN Band(LightGreen, "lightgreen", "lightgreen")
    ELSE IF DblLess(d, 200) THEN Band(Yellow, "yellow", "yellow")
    ELSE IF DblLess(d, 240) THEN Band(Orange, "orange", "orange")
    ELSE IF DblLess(d, 280) THEN Band(Brown, "brown", "brown")
    ELSE IF DblLess(d, 320) THEN Band(Brown, "purple", "purple")
    ELSE IF DblLeq(d, 360) THEN Band(Pink, "#cc6699", "pink")
    ELSE Band(White, "white", "white")

\* The if / else-if chain of setLightAndUIFromAngle.
AngleToColor(d) ==
    IF DblLess(d, 40) THEN Band(White, "white", "white")
    ELSE IF DblLess(d, 80) THEN Band(LightBlue, "lightblue", "lightblue")
    ELSE IF DblLess(d, 120) THEN Band(Coral, "red", "red")
    ELSE IF DblLess(d, 160) THEN Band(LightGreen, "lightgreen", "lightgreen")
    ELSE IF DblLess(d, 200) THEN Band(Yellow, "yellow", "yellow")
    ELSE IF DblLess(d, 240) THEN Band(Orange, "orange", "orange")
    ELSE IF DblLess(d, 280) THEN Band(Brown, "brown", "brown")
    ELSE IF DblLess(d, 320) THEN Band(Brown, "purple", "purple")
    ELSE IF DblLeq(d, 360) THEN Band(Pink, "#cc6699", "pink")
    ELSE Band(White, "white", "white")

\* Variant of PositionSlider: Y is not inverted.
PositionSliderNoFlip(d) ==
    << RoundPx(ORBIT_RADIUS * SinMicro(d), SinHalfAbove(d)),
       RoundPx(ORBIT_RADIUS * CosMicro(d), CosHalfAbove(d)) >>

\* positionSlider: the slider's centre relative to the circle's centre
\* (left and top add ORBIT_RADIUS minus half the slider's size).
PositionSlider(d) ==
    << RoundPx(ORBIT_RADIUS * SinMicro(d), SinHalfAbove(d)),
       RoundPx(0 - ORBIT_RADIUS * CosMicro(d), CosHalfAbove(d)) >>

\* setLightAndUIFromAngle(d) run on scene sc with the variable light = lt:
\* the new lightColor, the rebuilt light, the circle's style, the read-out.
SetLightAndUIFromAngle(sc, lt, intensity, d) ==
    LET band == AngleToColor(d)
        ul == UpdateLight(sc, lt, band.colorHex, intensity)
    IN  [lightColor |-> band.colorHex,
         scene |-> ul.scene,
         light |-> ul.light,
         circleCss |-> [background |-> band.cssColor, boxShadow |-> band.boxShadowColor],
         angleInput |-> Ceil(d)]

(***************************************************************************)
(* Initial state: the module's top-level declarations, before main()       *)
(***************************************************************************)
NoScene == [meshes |-> <<>>, lights |-> <<>>]

Init ==
    /\ pc = "start"
    /\ intensitySlider \in {"element", "null"}
    /\ oninput = FALSE
    /\ intervalSet = FALSE
    /\ circleHandlers = FALSE
    /\ rafPending = FALSE
    /\ scene = NoScene
    /\ light = 0
    /\ lightColor = White
    /\ lightIntensity = Num(1)
    /\ deg = Whole(0)
    /\ mdown = FALSE
    /\ sliderPos = <<0, 0>>
    /\ circleCss = [background |-> "", boxShadow |-> ""]
    /\ angleInput = 0
    /\ startDeg = Whole(0)
    /\ ticksSince = 0

(***************************************************************************)
(* main()                                                                  *)
(***************************************************************************)
\* Variant of InitIntensityControl: no `if (intensitySlider)` guard, so that
\* assigning oninput on null throws.
InitIntensityControlNoGuard(el) == [wired |-> el # "null", threw |-> el = "null"]

\* initIntensityControl(): whether the handler is wired and whether the
\* function threw, for the element getElementById returned.
InitIntensityControl(el) == [wired |-> el # "null", threw |-> FALSE]

\* main(): initThree, createPlane, createSphere, initLight,
\* initColorControl, initIntensityControl, requestAnimationFrame.
Main ==
    /\ pc = "start"
    /\ LET sc0 == [meshes |-> <<"plane", "sphere">>, lights |-> <<>>]
           il == InitLight(sc0, lightColor, lightIntensity)
           r == SetLightAndUIFromAngle(il.scene, il.light, lightIntensity, Whole(0))
           ic == InitIntensityControl(intensitySlider)
       IN  /\ deg' = Whole(0)
           /\ mdown' = FALSE
           /\ lightColor' = r.lightColor
           /\ scene' = r.scene
           /\ light' = r.light
           /\ circleCss' = r.circleCss
           /\ angleInput' = r.angleInput
           /\ sliderPos' = PositionSlider(Whole(0))
           /\ intervalSet' = TRUE
           /\ circleHandlers' = TRUE
           /\ oninput' = ic.wired
           /\ rafPending' = ~ic.threw
           /\ pc' = IF ic.threw THEN "threw" ELSE "running"
    /\ UNCHANGED <<intensitySlider, lightIntensity>>

(***************************************************************************)
(* The setInterval callback                                                *)
(***************************************************************************)
\* Variant of TickAngle: the increment without the wrap.
TickAngleNoWrap(d) == DblAddOne(d)

\* deg = (deg + 1) % 360
TickAngle(d) == DblRem(DblAddOne(d), FullTurn)

\* positionSlider(d); setLightAndUIFromAngle(d) -- the tail of both the
\* interval callback and the dragging branch of the move handler.
ShowAngle(d) ==
    LET r == SetLightAndUIFromAngle(scene, light, lightIntensity, d)
    IN  /\ sliderPos' = PositionSlider(d)
        /\ lightColor' = r.lightColor
        /\ scene' = r.scene
        /\ light' = r.light
        /\ circleCss' = r.circleCss
        /\ angleInput' = r.angleInput

Tick ==
    /\ pc # "start"
    /\ intervalSet
    /\ deg' = TickAngle(deg)
    /\ ShowAngle(TickAngle(deg))
    /\ UNCHANGED <<pc, intensitySlider, oninput, intervalSet, circleHandlers,
                   rafPending, lightIntensity, mdown>>

(***************************************************************************)
(* The mouse handlers of #circle                                           *)
(***************************************************************************)
MouseDown ==
    /\ pc # "start"
    /\ circleHandlers
    /\ mdown' = TRUE
    /\ UNCHANGED <<pc, intensitySlider, oninput, intervalSet, circleHandlers,
                   rafPending, scene, light, lightColor, lightIntensity, deg,
                   sliderPos, circleCss, angleInput>>

MouseUp ==
    /\ pc # "start"
    /\ circleHandlers
    /\ mdown' = FALSE
    /\ UNCHANGED <<pc, intensitySlider, oninput, intervalSet, circleHandlers,
                   rafPending, scene, light, lightColor, lightIntensity, deg,
                   sliderPos, circleCss, angleInput>>

MouseLeave ==
    /\ pc # "start"
    /\ circleHandlers
    /\ mdown' = FALSE
    /\ UNCHANGED <<pc, intensitySlider, oninput, intervalSet, circleHandlers,
                   rafPending, scene, light, lightColor, lightIntensity, deg,
                   sliderPos, circleCss, angleInput>>

\* Pointer positions relative to the circle's top-left corner (mPos).
PointerRange == (ORBIT_RADIUS - MaxOff)..(ORBIT_RADIUS + MaxOff)

\* The doubles the handler may compute as the angle of each pointer position.
PointerDoubles ==
    [mx \in PointerRange |-> [my \in PointerRange |-> DoublesAt(AngleUnits(mx, my))]]

\* Variant of Dragging: the handler forgets to test mdown.
DraggingAlways(m) == TRUE

\* `if (mdown)` of the move handler.
Dragging(m) == m

MouseMove(mx, my) ==
    /\ pc # "start"
    /\ circleHandlers
    /\ IF Dragging(mdown)
       THEN \E d \in PointerDoubles[mx][my] :
               /\ deg' = d
               /\ ShowAngle(d)
               /\ UNCHANGED <<pc, intensitySlider, oninput, intervalSet, circleHandlers,
                              rafPending, lightIntensity, mdown>>
       ELSE UNCHANGED progVars

(***************************************************************************)
(* The oninput handler of the intensity slider                             *)
(***************************************************************************)
\* Variant of NewIntensity: the linear formula for every value, 1 included.
NewIntensityLinear(sliderValue) ==
    IF sliderValue.nan THEN NaN ELSE Tenths(10 + sliderValue.val)

\* newIntensity for sliderValue = parseInt(this.value, 10); NaN !== 1, and
\* 1 + NaN * 0.1 is NaN.
NewIntensity(sliderValue) ==
    IF sliderValue.nan THEN NaN
    ELSE IF sliderValue.val # 1 THEN Tenths(10 + sliderValue.val)
    ELSE Num(sliderValue.val)

\* parseInt(this.value, 10) for every raw value explored.
SliderValue == [raw \in RawValues |-> ParseInt(raw)]

OnInput(raw) ==
    /\ pc # "start"
    /\ oninput
    /\ UNCHANGED <<pc, intensitySlider, oninput, intervalSet, circleHandlers,
                   rafPending, lightColor, deg, mdown, sliderPos, circleCss,
                   angleInput>>
    /\ LET newIntensity == NewIntensity(SliderValue[raw])
           ul == UpdateLight(scene, light, lightColor, newIntensity)
       IN  /\ lightIntensity' = newIntensity
           /\ scene' = ul.scene
           /\ light' = ul.light

(***************************************************************************)
(* The program: every handler may run whenever the event loop is free.     *)
(* lapVars only observe the program and stay put here.                     *)
(***************************************************************************)
Next ==
    \/ Main /\ UNCHANGED lapVars
    \/ Tick /\ UNCHANGED lapVars
    \/ MouseDown /\ UNCHANGED lapVars
    \/ MouseUp /\ UNCHANGED lapVars
    \/ MouseLeave /\ UNCHANGED lapVars
    \/ (\E mx \in PointerRange, my \in PointerRange : MouseMove(mx, my))
          /\ UNCHANGED lapVars
    \/ (\E raw \in RawValues : OnInput(raw)) /\ UNCHANGED lapVars

Spec == Init /\ [][Next]_vars

(***************************************************************************)
(* The program on a page without the intensity slider, with the laps of    *)
(* the timer observed: startDeg is the angle at the last drag move or at   *)
(* the start of the current lap, ticksSince the ticks since (at most 360). *)
(***************************************************************************)
InitLaps == Init /\ intensitySlider = "null"

TickLap ==
    /\ Tick
    /\ startDeg' = IF ticksSince = FullTurn THEN deg ELSE startDeg
    /\ ticksSince' = IF ticksSince = FullTurn THEN 1 ELSE ticksSince + 1

MouseMoveLap ==
    /\ \E mx \in PointerRange, my \in PointerRange : MouseMove(mx, my)
    /\ IF Dragging(mdown)
       THEN startDeg' = deg' /\ ticksSince' = 0
       ELSE UNCHANGED lapVars

NextLaps ==
    \/ Main /\ UNCHANGED lapVars
    \/ TickLap
    \/ MouseDown /\ UNCHANGED lapVars
    \/ MouseUp /\ UNCHANGED lapVars
    \/ MouseLeave /\ UNCHANGED lapVars
    \/ MouseMoveLap

SpecLaps == InitLaps /\ [][NextLaps]_vars

(***************************************************************************)
(* setLightAndUIFromAngle as a function: one call on a whole angle of      *)
(* 0..360 degrees, on the scene as initLight leaves it.                    *)
(***************************************************************************)
InitAngleToColor ==
    /\ pc = "call"
    /\ deg \in { Whole(n) : n \in 0..FullTurn }
    /\ intensitySlider = "null"
    /\ oninput = FALSE
    /\ intervalSet = FALSE
    /\ circleHandlers = FALSE
    /\ rafPending = FALSE
    /\ scene = InitLight([meshes |-> <<"plane", "sphere">>, lights |-> <<>>],
                         White, Num(1)).scene
    /\ light = 1
    /\ lightColor = White
    /\ lightIntensity = Num(1)
    /\ mdown = FALSE
    /\ sliderPos = <<0, 0>>
    /\ circleCss = [background |-> "", boxShadow |-> ""]
    /\ angleInput = 0
    /\ startDeg = Whole(0)
    /\ ticksSince = 0

CallSetLightAndUIFromAngle ==
    /\ pc = "call"
    /\ pc' = "returned"
    /\ LET r == SetLightAndUIFromAngle(scene, light, lightIntensity, deg)
       IN  /\ lightColor' = r.lightColor
           /\ scene' = r.scene
           /\ light' = r.light
           /\ circleCss' = r.circleCss
           /\ angleInput' = r.angleInput
    /\ UNCHANGED <<intensitySlider, oninput, intervalSet, circleHandlers, rafPending,
                   lightIntensity, deg, mdown, sliderPos, lapVars>>

SpecAngleToColor == InitAngleToColor /\ [][CallSetLightAndUIFromAngle]_vars

(***************************************************************************)
(* Properties                                                              *)
(***************************************************************************)
\* The colours of the angle-to-colour table.
BandColors == {White, LightBlue, Coral, LightGreen, Yellow, Orange, Brown, Pink}

\* x >= 0 for an intensity (false for NaN, as every comparison with NaN is).
NonNegative(x) == ~x.nan /\ x.tenths >= 0

\* C1: after any sequence of ticks, pointer events and intensity inputs,
\* lightColor is one of the band colours and lightIntensity is >= 0.
C1_ColorBandAndIntensityNonNegative ==
    lightColor \in BandColors /\ NonNegative(lightIntensity)

\* C2: an intensity input whose raw value does not parse to an integer
\* leaves the light intensity, the light colour and the scene light unchanged.
C2_MalformedInputIgnored ==
    [][\A raw \in RawValues :
          (OnInput(raw) /\ ParseInt(raw).nan)
              => UNCHANGED <<lightIntensity, lightColor, scene, light>>]_vars

\* C3: press sets dragging, release and leave set idle; a move while dragging
\* sets the angle from the pointer and updates the slider position and the
\* light colour from it; a move while idle changes none of the three.
C3_DragStateMachine ==
    [][/\ MouseDown => mdown'
       /\ (MouseUp \/ MouseLeave) => ~mdown'
       /\ mdown =>
             \A mx \in PointerRange, my \in PointerRange :
                MouseMove(mx, my) =>
                   /\ deg' \in DoublesAt(AngleUnits(mx, my))
                   /\ sliderPos' = PositionSlider(deg')
                   /\ lightColor' = AngleToColor(deg').colorHex
                   /\ mdown'
       /\ (~mdown /\ <<deg, sliderPos, lightColor>>' # <<deg, sliderPos, lightColor>>) =>
             \A mx \in PointerRange, my \in PointerRange : ~MouseMove(mx, my)]_vars

\* C3 witness: dragging, with the angle, slider and colour a move left there.
C3_Witness ==
    /\ mdown
    /\ ~IsWhole(deg)
    /\ deg \in DoublesAt(AngleUnits(ORBIT_RADIUS + 1, ORBIT_RADIUS + 2))
    /\ lightColor = LightGreen

\* The ordered band table: upper bound and colour.
BandTable ==
    << <<40, White>>, <<80, LightBlue>>, <<120, Coral>>, <<160, LightGreen>>,
       <<200, Yellow>>, <<240, Orange>>, <<280, Brown>>, <<320, Brown>>,
       <<360, Pink>> >>

\* Colour of the first band whose upper bound is strictly greater than n,
\* and of the last band when there is none.
FirstBandColor(n) ==
    IF \E i \in 1..Len(BandTable) : BandTable[i][1] > n
    THEN LET i == CHOOSE j \in 1..Len(BandTable) :
                     /\ BandTable[j][1] > n
                     /\ \A k \in 1..(j - 1) : BandTable[k][1] <= n
         IN  BandTable[i][2]
    ELSE BandTable[Len(BandTable)][2]

\* C4: for every whole angle d in 0..360 the mapping returns the colour of
\* the first band whose upper bound is strictly greater than d, and the last
\* band's colour for d = 360.
C4_FirstBandWins ==
    pc = "returned" => lightColor = FirstBandColor(deg.w)

\* C4 witness: the call on 360 returned the last band's colour.
C4_Witness == pc = "returned" /\ deg = Whole(FullTurn) /\ lightColor = Pink

\* C5: the angle is in [0, 360) in every state after start-up.
C5_AngleInRange ==
    pc # "start" =>
        /\ deg.w \in 0..(FullTurn - 1)
        /\ deg.fh \in 0..(Limb - 1)
        /\ deg.fl \in 0..(Limb - 1)

\* C5 witness: a fractional angle set by a drag has wrapped past 360.
C5_Witness == pc # "start" /\ deg.w = 0 /\ ~IsWhole(deg)

\* The difference deg - startDeg in units of 2^-52 degree, for equal whole
\* parts and neighbouring high limbs.
FractionDrift == (deg.fh - startDeg.fh) * Limb + (deg.fl - startDeg.fl)

\* C6 as stated: 360 ticks with no pointer move in between return the angle
\* to the value it had, for every starting angle.
C6_LapReturnsExactly == ticksSince = FullTurn => deg = startDeg

\* C6 as amended: each tick advances the whole degrees by 1 modulo 360; a
\* whole starting angle is followed exactly and returned to after 360 ticks;
\* a fractional one is returned to within 2^-44 degree.
C6_LapReturns ==
    /\ deg.w = (startDeg.w + ticksSince) % FullTurn
    /\ IsWhole(startDeg) => IsWhole(deg)
    /\ ticksSince = FullTurn =>
          /\ deg.fh - startDeg.fh \in {-1, 0, 1}
          /\ Abs(FractionDrift) <= 2^8

\* C6 witness: a lap of 360 ticks after a drag to 45 degrees.
C6_Witness == ticksSince = FullTurn /\ startDeg = Whole(45) /\ deg = Whole(45)

DegUnits == deg.w * FracUnit + FracOf(deg)

\* The angle the move handler computes for the pointer on the slider's centre.
SliderAngleUnits == AngleUnits(sliderPos[1] + ORBIT_RADIUS, sliderPos[2] + ORBIT_RADIUS)

\* Distance of two angles on the circle, in units of 1/FracUnit degree.
CircularDistance(a, b) ==
    LET x == Abs(a - b) % (FullTurn * FracUnit)
    IN  IF x <= (FullTurn * FracUnit) \div 2 THEN x ELSE FullTurn * FracUnit - x

\* The resolution of the trigonometric tables, far above double rounding.
TableTolerance == FracUnit \div 64

\* C8 as stated: the angle of the slider's position is the current angle up
\* to floating-point rounding.
C8_RoundTripToRounding ==
    pc # "start" => CircularDistance(SliderAngleUnits, DegUnits) <= TableTolerance

\* C8 as amended: the angle of the slider's position is within 2 degrees of
\* the current angle (the position is rounded to whole pixels).
C8_RoundTripToPixels ==
    pc # "start" => CircularDistance(SliderAngleUnits, DegUnits) <= 2 * FracUnit

\* C8 witness: at 359 degrees the slider sits on the pixel of 0 degrees.
C8_Witness ==
    /\ pc # "start"
    /\ deg = Whole(359)
    /\ sliderPos = <<0, 0 - ORBIT_RADIUS>>
    /\ SliderAngleUnits = 0

\* C9: without the intensity slider main completes: colour control, timer
\* and render loop are set up, no intensity handler is wired, and the
\* intensity stays 1.
C9_MissingSliderSkipped ==
    (pc # "start" /\ intensitySlider = "null") =>
        /\ pc = "running"
        /\ circleHandlers
        /\ intervalSet
        /\ rafPending
        /\ ~oninput
        /\ lightIntensity = Num(1)

\* C9 witness: the slider-less page running, dragged into the last band.
C9_Witness ==
    /\ pc = "running"
    /\ intensitySlider = "null"
    /\ mdown
    /\ lightColor = Pink
    /\ lightIntensity = Num(1)

\* C10: once main has run, the scene holds exactly one ambient light, the
\* one `light` refers to, with the current lightColor and lightIntensity.
C10_OneCurrentLight ==
    pc # "start" =>
        /\ Len(scene.lights) = 1
        /\ light = 1
        /\ scene.lights[1] = AmbientLight(lightColor, lightIntensity)

\* C10 witness: after ticks and an intensity input, one light with both.
C10_Witness ==
    /\ pc # "start"
    /\ lightColor = Pink
    /\ lightIntensity = Tenths(15)
    /\ scene.lights = <<AmbientLight(Pink, Tenths(15))>>

====
